---- MODULE Spec2Model ----
(***************************************************************************)
(* Model of the database access service (package db, server.go): the       *)
(* construction of the Server from its Config, the lifecycle operations    *)
(* Start / Close / Wait, the ticks of the heartbeats and label workers,    *)
(* and the handling of one inbound connection from the TLS handshake to    *)
(* the protocol engine and the audit stream writer.                        *)
(***************************************************************************)
EXTENDS Naturals, Integers, Sequences, FiniteSets, TLC

\* ------------------------------------------------------------------ bounds
\* Connections handed to HandleConnection.
MaxConns == 2
\* Length of Config.Servers.
MaxServers == 2
\* Number of Config fields a caller leaves unset at once.
MaxMissing == 2
\* Number of Close calls made on one server.
MaxCloseCalls == 2
\* Number of Start calls made on one server.
MaxStartCalls == 2
\* Number of Wait calls made on one server.
MaxWaits == 2
\* Number of ticks of one heartbeat.
MaxTicks == 2
\* Number of times a label worker recomputes its labels.
MaxSyncs == 2
\* Largest reading of the clock.
MaxTime == 2

Conns == 1..MaxConns

\* The nil error, and the nil value of the other pointer-like things.
NoErr == [class |-> "nil", msg |-> ""]
Nil == "nil"

\* --------------------------------------------------------------- descriptors
\* services.DatabaseServer as far as server.go reads it: GetName (the key of
\* the worker tables), GetDatabaseName, GetProtocol, GetDynamicLabels, and
\* the region of GetAWS that keys the root-certificate cache.
ProtocolPostgres == "postgres"

Descriptors ==
    { [name |-> "db1", dbName |-> "test",    protocol |-> ProtocolPostgres, dynamic |-> TRUE,
       region |-> "us-east-1"],
      [name |-> "db2", dbName |-> "metrics", protocol |-> "mysql",          dynamic |-> TRUE,
       region |-> ""],
      [name |-> "db1", dbName |-> "metrics", protocol |-> ProtocolPostgres, dynamic |-> FALSE,
       region |-> ""] }

RECURSIVE SeqsUpTo(_, _)
SeqsUpTo(S, n) ==
    IF n = 0 THEN { <<>> }
    ELSE LET shorter == SeqsUpTo(S, n - 1)
         IN  shorter \cup { Append(s, x) : s \in { t \in shorter : Len(t) = n - 1 }, x \in S }

ServerLists == SeqsUpTo(Descriptors, MaxServers)

\* -------------------------------------------------------------------- Config
\* The fields of Config that are pointers, interfaces, funcs or strings: TRUE
\* when the caller set the field. CipherSuites and Servers are slices; the
\* former is modelled by whether it is non-empty, the latter by its contents.
ScalarFields ==
    { "Clock", "DataDir", "AuthClient", "AccessPoint", "StreamEmitter", "TLSConfig",
      "CipherSuites", "Authorizer", "GetRotation", "Credentials", "OnHeartbeat" }

Missing(c) ==
    { f \in ScalarFields : ~c.set[f] } \cup (IF Len(c.Servers) = 0 THEN { "Servers" } ELSE {})

MissingSets == { m \in SUBSET ScalarFields : Cardinality(m) <= MaxMissing }

Configs ==
    { c \in { [set |-> [f \in ScalarFields |-> f \notin m], Servers |-> l] :
                m \in MissingSets, l \in ServerLists } :
        Cardinality(Missing(c)) <= MaxMissing }

\* A Config nobody has passed yet.
NoConfig == [set |-> [f \in ScalarFields |-> FALSE], Servers |-> <<>>]

BadParameter(msg) == [class |-> "BadParameter", msg |-> msg]

\* CheckAndSetDefaults without the check of the database servers.
CheckAndSetDefaults_NoServersCheck(c, awsOk) ==
    LET c1 == [c EXCEPT !.set["Clock"] = TRUE]
    IN  IF ~c1.set["DataDir"] THEN [err |-> BadParameter("data dir missing"), cfg |-> c1]
        ELSE IF ~c1.set["AuthClient"] THEN [err |-> BadParameter("auth client log missing"), cfg |-> c1]
        ELSE IF ~c1.set["AccessPoint"] THEN [err |-> BadParameter("access point missing"), cfg |-> c1]
        ELSE IF ~c1.set["StreamEmitter"] THEN [err |-> BadParameter("stream emitter missing"), cfg |-> c1]
        ELSE IF ~c1.set["TLSConfig"] THEN [err |-> BadParameter("tls config missing"), cfg |-> c1]
        ELSE IF ~c1.set["CipherSuites"] THEN [err |-> BadParameter("cipersuites missing"), cfg |-> c1]
        ELSE IF ~c1.set["Authorizer"] THEN [err |-> BadParameter("authorizer missing"), cfg |-> c1]
        ELSE IF ~c1.set["GetRotation"] THEN [err |-> BadParameter("rotation getter missing"), cfg |-> c1]
        ELSE IF ~c1.set["OnHeartbeat"] THEN [err |-> BadParameter("heartbeat missing"), cfg |-> c1]
        ELSE IF ~c1.set["Credentials"]
             THEN IF awsOk THEN [err |-> NoErr, cfg |-> [c1 EXCEPT !.set["Credentials"] = TRUE]]
                  ELSE [err |-> [class |-> "Wrapped", msg |-> "aws session"], cfg |-> c1]
        ELSE [err |-> NoErr, cfg |-> c1]

\* CheckAndSetDefaults: the error returned (Nil when none) and the receiver
\* as the call leaves it. awsOk is the outcome of the ambient AWS session
\* lookup made when no credentials were given.
CheckAndSetDefaults(c, awsOk) ==
    LET c1 == [c EXCEPT !.set["Clock"] = TRUE]
    IN  IF ~c1.set["DataDir"] THEN [err |-> BadParameter("data dir missing"), cfg |-> c1]
        ELSE IF ~c1.set["AuthClient"] THEN [err |-> BadParameter("auth client log missing"), cfg |-> c1]
        ELSE IF ~c1.set["AccessPoint"] THEN [err |-> BadParameter("access point missing"), cfg |-> c1]
        ELSE IF ~c1.set["StreamEmitter"] THEN [err |-> BadParameter("stream emitter missing"), cfg |-> c1]
        ELSE IF ~c1.set["TLSConfig"] THEN [err |-> BadParameter("tls config missing"), cfg |-> c1]
        ELSE IF ~c1.set["CipherSuites"] THEN [err |-> BadParameter("cipersuites missing"), cfg |-> c1]
        ELSE IF ~c1.set["Authorizer"] THEN [err |-> BadParameter("authorizer missing"), cfg |-> c1]
        ELSE IF ~c1.set["GetRotation"] THEN [err |-> BadParameter("rotation getter missing"), cfg |-> c1]
        ELSE IF Len(c1.Servers) = 0 THEN [err |-> BadParameter("database servers missing"), cfg |-> c1]
        ELSE IF ~c1.set["OnHeartbeat"] THEN [err |-> BadParameter("heartbeat missing"), cfg |-> c1]
        ELSE IF ~c1.set["Credentials"]
             THEN IF awsOk THEN [err |-> NoErr, cfg |-> [c1 EXCEPT !.set["Credentials"] = TRUE]]
                  ELSE [err |-> [class |-> "Wrapped", msg |-> "aws session"], cfg |-> c1]
        ELSE [err |-> NoErr, cfg |-> c1]

\* ------------------------------------------------------------------- state
VARIABLES
    cfgIn,          \* the Config value passed to New (Nil before the call)
    newRet,         \* what New returned: [called, server, err]
    config,         \* Server.Config: the Config after CheckAndSetDefaults
    clientAuth,     \* Server.TLSConfig.ClientAuth
    rdsCACerts,     \* Server.rdsCACerts: region -> loaded root certificate
    ctx,            \* the context passed to New: "active" or "cancelled"
    closeContext,   \* Server.closeContext: "none", "active" or "cancelled"
    dynamicLabels,  \* Server.dynamicLabels: GetName() -> label worker handle
    heartbeats,     \* Server.heartbeats: GetName() -> heartbeat worker handle
    descriptors,    \* per entry of Config.Servers: the labels, rotation and TTL
                    \* the descriptor object holds
    now,            \* the last reading of Config.Clock
    reports,        \* the calls of Config.OnHeartbeat made so far
    startCalls,     \* number of Start calls made
    closeLog,       \* the calls Close has made, in order
    closeRet,       \* the return values of the Close calls made, in order
    waits,          \* per Wait call: "none", "blocked" or "returned"
    conns,          \* per connection: the position and locals of HandleConnection
    uuids           \* the number of ids uuid.New() has returned

vars == <<cfgIn, newRet, config, clientAuth, rdsCACerts, ctx, closeContext, dynamicLabels, heartbeats,
          descriptors, now, reports, startCalls, closeLog, closeRet, waits, conns, uuids>>

lifecycleVars == <<cfgIn, newRet, config, clientAuth, rdsCACerts, ctx, closeContext, dynamicLabels,
                   heartbeats, descriptors, now, reports, startCalls, closeLog, closeRet,
                   waits>>

Put(f, k, v) == [x \in (DOMAIN f) \cup {k} |-> IF x = k THEN v ELSE f[x]]

EmptyTable == [x \in {} |-> Nil]

\* A label worker handle (labels.Dynamic): the descriptor it was made for
\* (its index in Config.Servers), the tasks started on it, the Close calls
\* made on it, and value, the number of times its labels were computed (once
\* by the Sync of initDynamicLabels). writing: a task of the worker holds
\* the worker's lock to store new labels; readers: the descriptors whose
\* info-provider has read the labels with Get.
NewDynamic(i) ==
    [desc |-> i, tasks |-> 0, closeCalls |-> 0, value |-> 1, writing |-> FALSE, readers |-> {}]

\* A heartbeat handle (srv.Heartbeat) with the HeartbeatConfig fields the
\* model reads: Context, GetServerInfo (the descriptor the closure holds) and
\* OnHeartbeat (TRUE: the callback of the Config). ticks counts the calls of
\* the info-provider, phase is where the current tick stands, getter the
\* class of the error the rotation getter returned in the last tick, at the
\* clock reading of that tick, announces the outcome of every announce.
NewHeartbeat(i) ==
    [desc |-> i, tasks |-> 0, closeCalls |-> 0, closeErrs |-> <<>>,
     context |-> "closeContext", onHeartbeat |-> TRUE,
     ticks |-> 0, phase |-> "idle", getter |-> "none", at |-> 0, announces |-> <<>>]

\* What a descriptor object holds besides its static fields, before any
\* tick: no dynamic label value, no rotation, no expiry.
NoExpiry == [set |-> FALSE, at |-> 0, ttl |-> ""]
NewDescriptor == [labels |-> 0, rotation |-> "none", expiry |-> NoExpiry]

InitSteps == { "labels", "heartbeat", "rds" }

\* initDynamicLabels, initHeartbeat, initRDSRootCert for descriptor i of the
\* list, on the tables t = [dyn, hb, err]. A step fails when (failAt,
\* failStep) names it.
initDynamicLabels(t, servers, i, failAt, failStep) ==
    IF ~servers[i].dynamic THEN t
    ELSE IF failAt = i /\ failStep = "labels"
         THEN [t EXCEPT !.err = [class |-> "Wrapped", msg |-> "labels"]]
    ELSE [t EXCEPT !.dyn = Put(t.dyn, servers[i].name, NewDynamic(i))]

\* initHeartbeat with no OnHeartbeat in the HeartbeatConfig.
initHeartbeat_NoCallback(t, servers, i, failAt, failStep) ==
    IF failAt = i /\ failStep = "heartbeat"
    THEN [t EXCEPT !.err = [class |-> "Wrapped", msg |-> "heartbeat"]]
    ELSE [t EXCEPT !.hb = Put(t.hb, servers[i].name,
                                [NewHeartbeat(i) EXCEPT !.onHeartbeat = FALSE])]

initHeartbeat(t, servers, i, failAt, failStep) ==
    IF failAt = i /\ failStep = "heartbeat"
    THEN [t EXCEPT !.err = [class |-> "Wrapped", msg |-> "heartbeat"]]
    ELSE [t EXCEPT !.hb = Put(t.hb, servers[i].name, NewHeartbeat(i))]

\* Loads the root certificate of the region of an RDS database into the
\* cache; nothing for a database that has no region.
initRDSRootCert(t, servers, i, failAt, failStep) ==
    IF failAt = i /\ failStep = "rds"
    THEN [t EXCEPT !.err = [class |-> "Wrapped", msg |-> "rds root cert"]]
    ELSE IF servers[i].region = ""
    THEN t
    ELSE [t EXCEPT !.certs = Put(t.certs, servers[i].region, "certificate")]

initDatabaseServer(t, servers, i, failAt, failStep) ==
    LET t1 == initDynamicLabels(t, servers, i, failAt, failStep)
    IN  IF t1.err # NoErr THEN t1
        ELSE LET t2 == initHeartbeat(t1, servers, i, failAt, failStep)
             IN  IF t2.err # NoErr THEN t2
                 ELSE initRDSRootCert(t2, servers, i, failAt, failStep)

\* The loop of New over server.Servers, from index i on.
RECURSIVE InitServers(_, _, _, _, _)
InitServers(t, servers, i, failAt, failStep) ==
    IF i > Len(servers) THEN t
    ELSE LET t1 == initDatabaseServer(t, servers, i, failAt, failStep)
         IN  IF t1.err # NoErr THEN t1
             ELSE InitServers(t1, servers, i + 1, failAt, failStep)

\* ------------------------------------------------------------- connections
\* The dynamic type of ctx.Value(auth.ContextUser); Nil when the context
\* carries no user.
UserTypes == { "LocalUser", "RemoteUser", "BuiltinRole", Nil }

Wildcard == "*"

\* A role as the access checker sees it: the allowed database names and the
\* allowed database users.
NoRole == [names |-> {}, users |-> {}, none |-> TRUE]
Role(names, users) == [names |-> names, users |-> users, none |-> FALSE]

NoRequest == [dbName |-> "", dbUser |-> ""]

\* session.Context as authorize builds it. server is the index in
\* Config.Servers of the descriptor (0: the nil interface value), id the
\* value uuid.New() returned (0: none).
NoSession == [built |-> FALSE, id |-> 0, server |-> 0, service |-> "", checker |-> NoRole]

\* auth.Context as Authorizer.Authorize returns it: the checker and the
\* service name of the identity.
NoAuthContext == [set |-> FALSE, checker |-> NoRole, service |-> ""]

\* A connection before HandleConnection is called for it. ctx is the context
\* of the connection, afterClose whether the lifecycle context was already
\* cancelled when HandleConnection was called.
NoConn ==
    [pc |-> "idle", raw |-> "none", log |-> <<>>, user |-> Nil,
     authContext |-> NoAuthContext, session |-> NoSession, writer |-> "none",
     writerCtx |-> "none", writerCloses |-> 0,
     engine |-> "none", request |-> NoRequest, granted |-> FALSE, queries |-> 0,
     audit |-> <<>>, err |-> NoErr, ctx |-> "none", afterClose |-> FALSE]

\* The loop of authorize leaving at the first descriptor that matches.
Resolve_FirstMatch(servers, service, i, found) ==
    LET matching == { k \in i..Len(servers) : servers[k].dbName = service }
    IN  IF matching = {} THEN found
        ELSE CHOOSE k \in matching : \A j \in matching : k <= j

\* The loop of authorize over s.Servers: the index of the descriptor that
\* `server` holds after the loop, 0 when no assignment was made.
RECURSIVE Resolve(_, _, _, _)
Resolve(servers, service, i, found) ==
    IF i > Len(servers) THEN found
    ELSE Resolve(servers, service, i + 1,
                 IF servers[i].dbName = service THEN i ELSE found)

\* authorize with the session's checker not taken from the authorizer's
\* context.
authorize_OwnChecker(servers, user, authOk, role, service, id) ==
    IF user \notin { "LocalUser", "RemoteUser" }
    THEN [outcome |-> "error", err |-> BadParameter("invalid identity"),
          authContext |-> NoAuthContext, session |-> NoSession,
          log |-> << "principal.check" >>]
    ELSE IF ~authOk
    THEN [outcome |-> "error", err |-> [class |-> "AccessDenied", msg |-> "authorizer"],
          authContext |-> NoAuthContext, session |-> NoSession,
          log |-> << "principal.check", "Authorize" >>]
    ELSE LET authContext == [set |-> TRUE, checker |-> role, service |-> service]
             server == Resolve(servers, authContext.service, 1, 0)
         IN  IF server = 0
             THEN [outcome |-> "panic",
                   err |-> [class |-> "panic", msg |-> "nil pointer dereference"],
                   authContext |-> authContext, session |-> NoSession,
                   log |-> << "principal.check", "Authorize", "resolve" >>]
             ELSE [outcome |-> "session", err |-> NoErr,
                   authContext |-> authContext,
                   session |-> [built |-> TRUE, id |-> id, server |-> server,
                                service |-> authContext.service,
                                checker |-> Role({Wildcard}, {Wildcard})],
                   log |-> << "principal.check", "Authorize", "resolve", "session" >>]

\* authorize with the principal-type switch letting every type through.
authorize_AnyPrincipal(servers, user, authOk, role, service, id) ==
    IF ~authOk
    THEN [outcome |-> "error", err |-> [class |-> "AccessDenied", msg |-> "authorizer"],
          authContext |-> NoAuthContext, session |-> NoSession,
          log |-> << "principal.check", "Authorize" >>]
    ELSE LET authContext == [set |-> TRUE, checker |-> role, service |-> service]
             server == Resolve(servers, authContext.service, 1, 0)
         IN  IF server = 0
             THEN [outcome |-> "panic",
                   err |-> [class |-> "panic", msg |-> "nil pointer dereference"],
                   authContext |-> authContext, session |-> NoSession,
                   log |-> << "principal.check", "Authorize", "resolve" >>]
             ELSE [outcome |-> "session", err |-> NoErr,
                   authContext |-> authContext,
                   session |-> [built |-> TRUE, id |-> id, server |-> server,
                                service |-> authContext.service,
                                checker |-> authContext.checker],
                   log |-> << "principal.check", "Authorize", "resolve", "session" >>]

\* authorize taking the id of the Session from its target.
authorize_IdOfTarget(servers, user, authOk, role, service, id) ==
    IF user \notin { "LocalUser", "RemoteUser" }
    THEN [outcome |-> "error", err |-> BadParameter("invalid identity"),
          authContext |-> NoAuthContext, session |-> NoSession,
          log |-> << "principal.check" >>]
    ELSE IF ~authOk
    THEN [outcome |-> "error", err |-> [class |-> "AccessDenied", msg |-> "authorizer"],
          authContext |-> NoAuthContext, session |-> NoSession,
          log |-> << "principal.check", "Authorize" >>]
    ELSE LET authContext == [set |-> TRUE, checker |-> role, service |-> service]
             server == Resolve(servers, authContext.service, 1, 0)
         IN  IF server = 0
             THEN [outcome |-> "panic",
                   err |-> [class |-> "panic", msg |-> "nil pointer dereference"],
                   authContext |-> authContext, session |-> NoSession,
                   log |-> << "principal.check", "Authorize", "resolve" >>]
             ELSE [outcome |-> "session", err |-> NoErr,
                   authContext |-> authContext,
                   session |-> [built |-> TRUE, id |-> server, server |-> server,
                                service |-> authContext.service,
                                checker |-> authContext.checker],
                   log |-> << "principal.check", "Authorize", "resolve", "session" >>]

\* authorize(ctx): user is the type of the context's user, authOk the answer
\* of Authorizer.Authorize, role and service what the authorizer's context
\* holds (the checker and identity.RouteToDatabase.ServiceName). Returns the
\* outcome - "session", "error" or "panic" (the method call on the nil
\* DatabaseServer of line 401) - and the events in the order they happen.
authorize(servers, user, authOk, role, service, id) ==
    IF user \notin { "LocalUser", "RemoteUser" }
    THEN [outcome |-> "error", err |-> BadParameter("invalid identity"),
          authContext |-> NoAuthContext, session |-> NoSession,
          log |-> << "principal.check" >>]
    ELSE IF ~authOk
    THEN [outcome |-> "error", err |-> [class |-> "AccessDenied", msg |-> "authorizer"],
          authContext |-> NoAuthContext, session |-> NoSession,
          log |-> << "principal.check", "Authorize" >>]
    ELSE LET authContext == [set |-> TRUE, checker |-> role, service |-> service]
             server == Resolve(servers, authContext.service, 1, 0)
         IN  IF server = 0
             THEN [outcome |-> "panic",
                   err |-> [class |-> "panic", msg |-> "nil pointer dereference"],
                   authContext |-> authContext, session |-> NoSession,
                   log |-> << "principal.check", "Authorize", "resolve" >>]
             ELSE [outcome |-> "session", err |-> NoErr,
                   authContext |-> authContext,
                   session |-> [built |-> TRUE, id |-> id, server |-> server,
                                service |-> authContext.service,
                                checker |-> authContext.checker],
                   log |-> << "principal.check", "Authorize", "resolve", "session" >>]

\* dispatch with the postgres engine as the default of the switch.
dispatch_DefaultEngine(servers, session) ==
    [engine |-> "postgres", err |-> NoErr]

\* dispatch(sessionCtx, streamWriter): the engine for the protocol of the
\* session's descriptor, or the error.
dispatch(servers, session) ==
    IF servers[session.server].protocol = ProtocolPostgres
    THEN [engine |-> "postgres", err |-> NoErr]
    ELSE [engine |-> Nil,
          err |-> [class |-> "BadParameter",
                   msg |-> "unsupported database procotol " \o servers[session.server].protocol]]

\* The deferred conn.Close() of HandleConnection, with the error it logged.
Returned(rec, err) ==
    [rec EXCEPT !.pc = "returned", !.raw = "closed", !.err = err,
                !.log = Append(@, "conn.close")]

\* The deferred function closing the stream writer under the context of the
\* connection.
DeferWriterClose_ConnectionContext(rec) ==
    [rec EXCEPT !.writer = "closing", !.writerCtx = "ctx",
                !.log = Append(@, "writer.close.go")]

\* The deferred function of handleConnection: the task that will close the
\* stream writer is started; it will call streamWriter.Close(s.closeContext).
DeferWriterClose(rec) ==
    [rec EXCEPT !.writer = "closing", !.writerCtx = "closeContext",
                !.log = Append(@, "writer.close.go")]

\* HandleConnection(conn), up to the handshake.
Accept(c) ==
    /\ newRet.server
    /\ conns[c].pc = "idle"
    /\ conns' = [conns EXCEPT ![c] = [@ EXCEPT !.pc = "handshake", !.raw = "open",
                                              !.afterClose = (closeContext = "cancelled")]]
    /\ UNCHANGED <<lifecycleVars, uuids>>

\* Handshake with the error of tlsConn.Handshake() ignored.
Handshake_IgnoreError(c, ok) ==
    /\ conns[c].pc = "handshake"
    /\ conns' = [conns EXCEPT ![c] =
            [@ EXCEPT !.pc = "identity",
                      !.log = Append(@, IF ok THEN "handshake.ok" ELSE "handshake.failed")]]
    /\ UNCHANGED <<lifecycleVars, uuids>>

\* Handshake with a failed handshake tried again on the open connection.
Handshake_Retry(c, ok) ==
    /\ conns[c].pc = "handshake"
    /\ conns' = [conns EXCEPT ![c] =
            IF ok THEN [@ EXCEPT !.pc = "identity", !.log = Append(@, "handshake.ok")]
            ELSE IF Len(@.log) = 0 THEN [@ EXCEPT !.log = Append(@, "handshake.failed")]
            ELSE Returned([@ EXCEPT !.log = Append(@, "handshake.failed")],
                          [class |-> "tls", msg |-> "Failed to perform TLS handshake."])]
    /\ UNCHANGED <<lifecycleVars, uuids>>

\* tlsConn.Handshake() and the return on its failure.
Handshake(c, ok) ==
    /\ conns[c].pc = "handshake"
    /\ conns' = [conns EXCEPT ![c] =
            IF ok THEN [@ EXCEPT !.pc = "identity", !.log = Append(@, "handshake.ok")]
            ELSE Returned([@ EXCEPT !.log = Append(@, "handshake.failed")],
                          [class |-> "tls", msg |-> "Failed to perform TLS handshake."])]
    /\ UNCHANGED <<lifecycleVars, uuids>>

\* WrapContext called with the lifecycle context of the server.
WrapContext_LifecycleContext(c, ok, user) ==
    /\ conns[c].pc = "identity"
    /\ conns' = [conns EXCEPT ![c] =
            IF ok THEN [@ EXCEPT !.pc = "authorize", !.user = user, !.ctx = "closeContext",
                                 !.log = Append(@, "identity.ok")]
            ELSE Returned([@ EXCEPT !.log = Append(@, "identity.failed")],
                          [class |-> "identity", msg |-> "Failed to extract identity from connection."])]
    /\ UNCHANGED <<lifecycleVars, uuids>>

\* s.middleware.WrapContext(context.Background(), tlsConn): the context of
\* the connection, which handleConnection hands to the engine.
WrapContext(c, ok, user) ==
    /\ conns[c].pc = "identity"
    /\ conns' = [conns EXCEPT ![c] =
            IF ok THEN [@ EXCEPT !.pc = "authorize", !.user = user, !.ctx = "Background",
                                 !.log = Append(@, "identity.ok")]
            ELSE Returned([@ EXCEPT !.log = Append(@, "identity.failed")],
                          [class |-> "identity", msg |-> "Failed to extract identity from connection."])]
    /\ UNCHANGED <<lifecycleVars, uuids>>

\* uuid.New() after it has returned n ids: a random id, taken to differ from
\* every id returned before.
NewUUID(n) == n + 1

\* handleConnection: s.authorize(ctx).
Authorize(c, authOk, role, service) ==
    /\ conns[c].pc = "authorize"
    /\ LET r == authorize(config.Servers, conns[c].user, authOk, role, service, NewUUID(uuids))
           rec == [conns[c] EXCEPT !.log = @ \o r.log, !.authContext = r.authContext]
       IN  /\ conns' = [conns EXCEPT ![c] =
                CASE r.outcome = "session" -> [rec EXCEPT !.pc = "streamWriter", !.session = r.session]
                  [] r.outcome = "error" -> Returned(rec, r.err)
                  [] r.outcome = "panic" ->
                        [rec EXCEPT !.pc = "panicked", !.raw = "closed", !.err = r.err,
                                    !.log = @ \o << "panic", "conn.close" >>]]
           /\ uuids' = IF r.outcome = "session" THEN uuids + 1 ELSE uuids
    /\ UNCHANGED lifecycleVars

\* The stream writer's failure ignored.
NewStreamWriter_IgnoreError(c, ok) ==
    /\ conns[c].pc = "streamWriter"
    /\ conns' = [conns EXCEPT ![c] =
            IF ok THEN [@ EXCEPT !.pc = "dispatch", !.writer = "open",
                                 !.log = Append(@, "writer.new")]
            ELSE [@ EXCEPT !.pc = "dispatch", !.log = Append(@, "writer.failed")]]
    /\ UNCHANGED <<lifecycleVars, uuids>>

\* handleConnection: s.newStreamWriter(sessionCtx).
NewStreamWriter(c, ok) ==
    /\ conns[c].pc = "streamWriter"
    /\ conns' = [conns EXCEPT ![c] =
            IF ok THEN [@ EXCEPT !.pc = "dispatch", !.writer = "open",
                                 !.log = Append(@, "writer.new")]
            ELSE Returned([@ EXCEPT !.log = Append(@, "writer.failed")],
                          [class |-> "Wrapped", msg |-> "stream writer"])]
    /\ UNCHANGED <<lifecycleVars, uuids>>

\* Dispatch with the stream writer closed only after the engine has run.
Dispatch_NoDefer(c) ==
    /\ conns[c].pc = "dispatch"
    /\ LET servers == config.Servers
           session == conns[c].session
       IN  conns' = [conns EXCEPT ![c] =
                IF servers[session.server].protocol = ProtocolPostgres
                THEN [@ EXCEPT !.pc = "engine", !.engine = "running",
                               !.log = @ \o << "dispatch", "engine.run" >>]
                ELSE Returned([@ EXCEPT !.log = Append(@, "dispatch.failed")],
                              BadParameter("unsupported database procotol "
                                           \o servers[session.server].protocol))]
    /\ UNCHANGED <<lifecycleVars, uuids>>

\* handleConnection: s.dispatch(sessionCtx, streamWriter), then the call of
\* the engine or the return.
Dispatch(c) ==
    /\ conns[c].pc = "dispatch"
    /\ LET r == dispatch(config.Servers, conns[c].session)
       IN  conns' = [conns EXCEPT ![c] =
                IF r.err = NoErr
                THEN [@ EXCEPT !.pc = "engine", !.engine = "running",
                               !.log = @ \o << "dispatch", "engine.run" >>]
                ELSE Returned(DeferWriterClose([@ EXCEPT !.log = Append(@, "dispatch.failed")]),
                              r.err)]
    /\ UNCHANGED <<lifecycleVars, uuids>>

\* services.AccessChecker.CheckAccessToDatabase for the requested pair.
CheckAccessToDatabase(checker, request) ==
    /\ (Wildcard \in checker.names \/ request.dbName \in checker.names)
    /\ (Wildcard \in checker.users \/ request.dbUser \in checker.users)

AccessDenied == [class |-> "AccessDenied", msg |-> "access to database denied"]

RECURSIVE QueryEvents(_)
QueryEvents(n) == IF n = 0 THEN <<>> ELSE Append(QueryEvents(n - 1), "query")

\* The engine's HandleConnection(ctx, sessionCtx, conn): the client asks for
\* request, runs nq queries, and the session then ends with or without an
\* error.
EngineHandleConnection(session, request, nq, fail) ==
    IF ~CheckAccessToDatabase(session.checker, request)
    THEN [granted |-> FALSE, err |-> AccessDenied, queries |-> 0, audit |-> <<>>]
    ELSE [granted |-> TRUE,
          err |-> IF fail THEN [class |-> "Engine", msg |-> "engine"] ELSE NoErr,
          queries |-> nq,
          audit |-> << "session.start" >> \o QueryEvents(nq) \o << "session.end" >>]

\* handleConnection cancelling the lifecycle context when the engine returns.
EngineReturn_CancelsLifecycle(c, request, nq, fail) ==
    /\ conns[c].pc = "engine"
    /\ LET r == EngineHandleConnection(conns[c].session, request, nq, fail)
       IN  conns' = [conns EXCEPT ![c] =
                Returned(DeferWriterClose(
                            [@ EXCEPT !.engine = "returned", !.request = request,
                                      !.granted = r.granted, !.queries = r.queries,
                                      !.audit = r.audit,
                                      !.log = Append(@, "engine.returned")]),
                         r.err)]
    /\ closeContext' = "cancelled"
    /\ UNCHANGED <<cfgIn, newRet, config, clientAuth, rdsCACerts, ctx, dynamicLabels, heartbeats,
                   descriptors, now, reports, startCalls, closeLog, closeRet, waits, uuids>>

\* handleConnection: the engine's HandleConnection returns, and so do
\* handleConnection and HandleConnection.
EngineReturn(c, request, nq, fail) ==
    /\ conns[c].pc = "engine"
    /\ LET r == EngineHandleConnection(conns[c].session, request, nq, fail)
       IN  conns' = [conns EXCEPT ![c] =
                Returned(DeferWriterClose(
                            [@ EXCEPT !.engine = "returned", !.request = request,
                                      !.granted = r.granted, !.queries = r.queries,
                                      !.audit = r.audit,
                                      !.log = Append(@, "engine.returned")]),
                         r.err)]
    /\ UNCHANGED <<lifecycleVars, uuids>>

\* The task started by the deferred function: streamWriter.Close(s.closeContext)
\* completes.
WriterClose(c) ==
    /\ conns[c].writer = "closing"
    /\ conns' = [conns EXCEPT ![c] = [@ EXCEPT !.writer = "closed", !.writerCloses = @ + 1]]
    /\ UNCHANGED <<lifecycleVars, uuids>>

\* Whether a context is done. The context of a connection is made from
\* context.Background() by WrapContext and nothing cancels it.
ContextDone(context) ==
    IF context = "closeContext" THEN closeContext = "cancelled" ELSE FALSE

\* The task started by the deferred function: the context given to
\* streamWriter.Close is done and the call returns its error, which is logged.
WriterCloseCancelled(c) ==
    /\ conns[c].writer = "closing"
    /\ ContextDone(conns[c].writerCtx)
    /\ conns' = [conns EXCEPT ![c] = [@ EXCEPT !.writer = "aborted", !.writerCloses = @ + 1]]
    /\ UNCHANGED <<lifecycleVars, uuids>>

Init ==
    /\ cfgIn = NoConfig
    /\ newRet = [called |-> FALSE, server |-> FALSE, err |-> NoErr]
    /\ config = NoConfig
    /\ clientAuth = "NoClientCert"
    /\ rdsCACerts = EmptyTable
    /\ uuids = 0
    /\ ctx = "active"
    /\ closeContext = "none"
    /\ dynamicLabels = EmptyTable
    /\ heartbeats = EmptyTable
    /\ descriptors = <<>>
    /\ now = 0
    /\ reports = {}
    /\ startCalls = 0
    /\ closeLog = <<>>
    /\ closeRet = <<>>
    /\ waits = [w \in 1..MaxWaits |-> "none"]
    /\ conns = [c \in Conns |-> NoConn]

\* New(ctx, config).
New(cfg, awsOk, failAt, failStep) ==
    /\ ~newRet.called
    /\ cfgIn' = cfg
    /\ LET r == CheckAndSetDefaults(cfg, awsOk)
       IN  IF r.err # NoErr
           THEN /\ newRet' = [called |-> TRUE, server |-> FALSE, err |-> r.err]
                /\ UNCHANGED <<config, clientAuth, rdsCACerts, closeContext, dynamicLabels, heartbeats,
                               descriptors>>
           ELSE LET t == InitServers([dyn |-> EmptyTable, hb |-> EmptyTable,
                                      certs |-> EmptyTable, err |-> NoErr],
                                     r.cfg.Servers, 1, failAt, failStep)
                IN  /\ config' = r.cfg
                    /\ descriptors' = [i \in 1..Len(r.cfg.Servers) |-> NewDescriptor]
                    /\ closeContext' = ctx
                    /\ clientAuth' = "RequireAndVerifyClientCert"
                    /\ dynamicLabels' = t.dyn
                    /\ heartbeats' = t.hb
                    /\ rdsCACerts' = t.certs
                    /\ newRet' = [called |-> TRUE, server |-> (t.err = NoErr), err |-> t.err]
    /\ UNCHANGED <<ctx, now, reports, startCalls, closeLog, closeRet, waits, conns, uuids>>

\* The caller of New cancels the context it passed: the context derived
\* from it by context.WithCancel is cancelled with it.
CancelCtx ==
    /\ ctx = "active"
    /\ ctx' = "cancelled"
    /\ closeContext' = IF closeContext = "active" THEN "cancelled" ELSE closeContext
    /\ UNCHANGED <<cfgIn, newRet, config, clientAuth, rdsCACerts, dynamicLabels, heartbeats, descriptors,
                   now, reports, startCalls, closeLog, closeRet, waits, conns, uuids>>

\* Start(): one task per label worker and per heartbeat in the tables.
Start ==
    /\ newRet.server
    /\ startCalls < MaxStartCalls
    /\ startCalls' = startCalls + 1
    /\ dynamicLabels' = [n \in DOMAIN dynamicLabels |->
                            [dynamicLabels[n] EXCEPT !.tasks = @ + 1]]
    /\ heartbeats' = [n \in DOMAIN heartbeats |->
                            [heartbeats[n] EXCEPT !.tasks = @ + 1]]
    /\ UNCHANGED <<cfgIn, newRet, config, clientAuth, rdsCACerts, ctx, closeContext, descriptors, now,
                   reports, closeLog, closeRet, waits, conns, uuids>>

\* trace.NewAggregate: the non-nil errors, nil when there is none.
NewAggregate(errors) ==
    LET nonNil == { e \in errors : e.err # Nil }
    IN  [nil |-> (nonNil = {}), errs |-> nonNil]

\* The errors slice Close builds: one entry per heartbeat of the table,
\* the result of that heartbeat's Close. failing are the heartbeats whose
\* Close fails in this call.
CloseErrors(hbs, failing) ==
    { [hb |-> n, err |-> IF n \in failing THEN "close failed" ELSE Nil] : n \in DOMAIN hbs }

\* The keys of a table in the order a range loop visits them. One order
\* stands for all: no step of Close depends on it.
RECURSIVE Keys(_)
Keys(names) ==
    IF names = {} THEN << >>
    ELSE LET n == CHOOSE x \in names : TRUE
         IN  << n >> \o Keys(names \ {n})

CloseEvents(ev, order) == [k \in 1..Len(order) |-> [ev |-> ev, name |-> order[k]]]

closeFunc == [ev |-> "closeFunc", name |-> ""]

\* A Close call has cancelled the context and has not yet returned.
CloseRunning ==
    Cardinality({ k \in 1..Len(closeLog) : closeLog[k] = closeFunc }) > Len(closeRet)

\* Close cancelling the context before it stops the label workers.
CloseCancel_CancelFirst ==
    /\ newRet.server
    /\ Len(closeRet) < MaxCloseCalls
    /\ ~CloseRunning
    /\ dynamicLabels' = [n \in DOMAIN dynamicLabels |->
                            [dynamicLabels[n] EXCEPT !.closeCalls = @ + 1]]
    /\ closeContext' = "cancelled"
    /\ closeLog' = closeLog \o << closeFunc >>
                            \o CloseEvents("dynamicLabel.Close", Keys(DOMAIN dynamicLabels))
    /\ UNCHANGED <<cfgIn, newRet, config, clientAuth, rdsCACerts, ctx, heartbeats, descriptors, now,
                   reports, startCalls, closeRet, waits, conns, uuids>>

\* Close cancelling the context without stopping the label workers.
CloseCancel_SkipLabels ==
    /\ newRet.server
    /\ Len(closeRet) < MaxCloseCalls
    /\ ~CloseRunning
    /\ closeContext' = "cancelled"
    /\ closeLog' = Append(closeLog, closeFunc)
    /\ UNCHANGED <<cfgIn, newRet, config, clientAuth, rdsCACerts, ctx, dynamicLabels, heartbeats,
                   descriptors, now, reports, startCalls, closeRet, waits, conns, uuids>>

\* Close that can be called only once: a second call never gets past its
\* first statement.
CloseCancel_Once ==
    /\ newRet.server
    /\ Len(closeRet) = 0
    /\ ~CloseRunning
    /\ dynamicLabels' = [n \in DOMAIN dynamicLabels |->
                            [dynamicLabels[n] EXCEPT !.closeCalls = @ + 1]]
    /\ closeContext' = "cancelled"
    /\ closeLog' = closeLog \o CloseEvents("dynamicLabel.Close", Keys(DOMAIN dynamicLabels))
                            \o << closeFunc >>
    /\ UNCHANGED <<cfgIn, newRet, config, clientAuth, rdsCACerts, ctx, heartbeats, descriptors, now,
                   reports, startCalls, closeRet, waits, conns, uuids>>

\* Close(), up to the cancellation: dynamicLabel.Close() for every label
\* worker of the table, then s.closeFunc().
CloseCancel ==
    /\ newRet.server
    /\ Len(closeRet) < MaxCloseCalls
    /\ ~CloseRunning
    /\ dynamicLabels' = [n \in DOMAIN dynamicLabels |->
                            [dynamicLabels[n] EXCEPT !.closeCalls = @ + 1]]
    /\ closeContext' = "cancelled"
    /\ closeLog' = closeLog \o CloseEvents("dynamicLabel.Close", Keys(DOMAIN dynamicLabels))
                            \o << closeFunc >>
    /\ UNCHANGED <<cfgIn, newRet, config, clientAuth, rdsCACerts, ctx, heartbeats, descriptors, now,
                   reports, startCalls, closeRet, waits, conns, uuids>>

\* Close returning at the first heartbeat whose Close fails.
CloseHeartbeats_StopAtFirstFailure(failing) ==
    /\ CloseRunning
    /\ LET first == IF failing = {} THEN {} ELSE { CHOOSE n \in failing : TRUE }
           reached == IF failing = {} THEN DOMAIN heartbeats ELSE first
       IN  /\ heartbeats' = [n \in DOMAIN heartbeats |->
                                IF n \in reached
                                THEN [heartbeats[n] EXCEPT
                                        !.closeCalls = @ + 1,
                                        !.closeErrs = Append(@, IF n \in first THEN "close failed" ELSE Nil)]
                                ELSE heartbeats[n]]
           /\ closeLog' = closeLog \o CloseEvents("heartbeat.Close", Keys(reached))
           /\ closeRet' = Append(closeRet,
                                 [nil |-> (first = {}),
                                  errs |-> { [hb |-> n, err |-> "close failed"] : n \in first }])
    /\ UNCHANGED <<cfgIn, newRet, config, clientAuth, rdsCACerts, ctx, closeContext, dynamicLabels,
                   descriptors, now, reports, startCalls, waits, conns, uuids>>

\* Close deleting every heartbeat it closed from the table.
CloseHeartbeats_Forget(failing) ==
    /\ CloseRunning
    /\ heartbeats' = EmptyTable
    /\ closeLog' = closeLog \o CloseEvents("heartbeat.Close", Keys(DOMAIN heartbeats))
    /\ closeRet' = Append(closeRet, NewAggregate(CloseErrors(heartbeats, failing)))
    /\ UNCHANGED <<cfgIn, newRet, config, clientAuth, rdsCACerts, ctx, closeContext, dynamicLabels,
                   descriptors, now, reports, startCalls, waits, conns, uuids>>

\* Close(), after the cancellation: heartbeat.Close() for every heartbeat of
\* the table, and the return of the aggregate of their errors.
CloseHeartbeats(failing) ==
    /\ CloseRunning
    /\ heartbeats' = [n \in DOMAIN heartbeats |->
                        [heartbeats[n] EXCEPT
                            !.closeCalls = @ + 1,
                            !.closeErrs = Append(@, IF n \in failing THEN "close failed" ELSE Nil)]]
    /\ closeLog' = closeLog \o CloseEvents("heartbeat.Close", Keys(DOMAIN heartbeats))
    /\ closeRet' = Append(closeRet, NewAggregate(CloseErrors(heartbeats, failing)))
    /\ UNCHANGED <<cfgIn, newRet, config, clientAuth, rdsCACerts, ctx, closeContext, dynamicLabels,
                   descriptors, now, reports, startCalls, waits, conns, uuids>>

\* Wait(): the call, which blocks on s.closeContext.Done(). The calls are
\* numbered in the order they are made.
Wait(w) ==
    /\ newRet.server
    /\ waits[w] = "none"
    /\ \A v \in 1..(w - 1) : waits[v] # "none"
    /\ waits' = [waits EXCEPT ![w] = "blocked"]
    /\ UNCHANGED <<cfgIn, newRet, config, clientAuth, rdsCACerts, ctx, closeContext, dynamicLabels,
                   heartbeats, descriptors, now, reports, startCalls, closeLog, closeRet, conns, uuids>>

\* Wait returning whether or not the context is done.
WaitReturn_NoBlock(w) ==
    /\ waits[w] = "blocked"
    /\ waits' = [waits EXCEPT ![w] = "returned"]
    /\ UNCHANGED <<cfgIn, newRet, config, clientAuth, rdsCACerts, ctx, closeContext, dynamicLabels,
                   heartbeats, descriptors, now, reports, startCalls, closeLog, closeRet, conns, uuids>>

\* Wait(): the Done channel of s.closeContext is closed and Wait returns
\* s.closeContext.Err().
WaitReturn(w) ==
    /\ waits[w] = "blocked"
    /\ closeContext = "cancelled"
    /\ waits' = [waits EXCEPT ![w] = "returned"]
    /\ UNCHANGED <<cfgIn, newRet, config, clientAuth, rdsCACerts, ctx, closeContext, dynamicLabels,
                   heartbeats, descriptors, now, reports, startCalls, closeLog, closeRet, conns, uuids>>

\* ------------------------------------------------------------- heartbeats
\* What s.GetRotation(teleport.RoleDatabase) returns: a rotation and no
\* error, or an error with the pointer nil or set.
Rotations == { "standby", "in_progress" }

GetRotationResults ==
    { [err |-> "nil", rotation |-> r] : r \in Rotations }
        \cup { [err |-> "NotFound", rotation |-> p] : p \in { Nil, "standby" } }
        \cup { [err |-> "ConnectionProblem", rotation |-> Nil] }

\* The expiry SetTTL(s.Clock, defaults.ServerAnnounceTTL) sets when the
\* clock reads t.
Expiry(t) == [set |-> TRUE, at |-> t, ttl |-> "ServerAnnounceTTL"]

\* The info-provider giving up, before SetTTL, when the rotation getter
\* fails with an error other than NotFound.
getServerInfoFunc_ReturnOnError(d, name, labels, t, rot) ==
    LET d1 == IF name \in DOMAIN labels THEN [d EXCEPT !.labels = labels[name].value] ELSE d
    IN  IF rot.err \notin { "nil", "NotFound" }
        THEN [outcome |-> "returned", descriptor |-> d1]
        ELSE IF rot.rotation = Nil
        THEN [outcome |-> "panic", descriptor |-> d1]
        ELSE [outcome |-> "returned",
              descriptor |-> [d1 EXCEPT !.rotation = rot.rotation, !.expiry = Expiry(t)]]

\* The function getServerInfoFunc returns, called for the descriptor
\* object d whose name is name, when the clock reads t and the rotation
\* getter returns rot: the descriptor as the call leaves it, and whether the
\* call returned it or panicked on the nil rotation of line 242.
getServerInfoFunc(d, name, labels, t, rot) ==
    LET d1 == IF name \in DOMAIN labels THEN [d EXCEPT !.labels = labels[name].value] ELSE d
    IN  IF rot.err \notin { "nil", "NotFound" }
        THEN [outcome |-> "returned", descriptor |-> [d1 EXCEPT !.expiry = Expiry(t)]]
        ELSE IF rot.rotation = Nil
        THEN [outcome |-> "panic", descriptor |-> d1]
        ELSE [outcome |-> "returned",
              descriptor |-> [d1 EXCEPT !.rotation = rot.rotation, !.expiry = Expiry(t)]]

\* labels.Get() of the label worker with the key name, called for
\* descriptor i: the table after the call.
Get(labels, name, i) ==
    IF name \in DOMAIN labels
    THEN [labels EXCEPT ![name] = [@ EXCEPT !.readers = @ \cup {i}]]
    ELSE labels

\* A tick of heartbeat n: a task started by Start on a heartbeat that is
\* neither closed nor cancelled calls GetServerInfo. The Get of the labels
\* waits for the lock of the label worker.
GetServerInfo(n, t, rot) ==
    /\ n \in DOMAIN heartbeats
    /\ heartbeats[n].tasks > 0
    /\ heartbeats[n].closeCalls = 0
    /\ closeContext = "active"
    /\ heartbeats[n].phase = "idle"
    /\ heartbeats[n].ticks < MaxTicks
    /\ t >= now
    /\ LET i == heartbeats[n].desc
           name == config.Servers[i].name
           r == getServerInfoFunc(descriptors[i], name, dynamicLabels, t, rot)
       IN  /\ name \in DOMAIN dynamicLabels => ~dynamicLabels[name].writing
           /\ descriptors' = [descriptors EXCEPT ![i] = r.descriptor]
           /\ dynamicLabels' = Get(dynamicLabels, name, i)
           /\ heartbeats' = [heartbeats EXCEPT ![n] =
                    [@ EXCEPT !.ticks = @ + 1, !.getter = rot.err, !.at = t,
                              !.phase = IF r.outcome = "panic" THEN "panicked" ELSE "announce"]]
    /\ now' = t
    /\ UNCHANGED <<cfgIn, newRet, config, clientAuth, rdsCACerts, ctx, closeContext,
                   reports, startCalls, closeLog, closeRet, waits, conns, uuids>>

\* The heartbeat announces the descriptor its info-provider returned and
\* calls the OnHeartbeat of its configuration with the outcome.
Announce(n, ok) ==
    /\ n \in DOMAIN heartbeats
    /\ heartbeats[n].phase = "announce"
    /\ heartbeats' = [heartbeats EXCEPT ![n] =
            [@ EXCEPT !.phase = "idle", !.announces = Append(@, ok)]]
    /\ reports' = IF heartbeats[n].onHeartbeat
                  THEN reports \cup { [hb |-> n, attempt |-> Len(heartbeats[n].announces) + 1,
                                       ok |-> ok] }
                  ELSE reports
    /\ UNCHANGED <<cfgIn, newRet, config, clientAuth, rdsCACerts, ctx, closeContext, dynamicLabels,
                   descriptors, now, startCalls, closeLog, closeRet, waits, conns, uuids>>

\* A task started by Start on label worker n has recomputed its labels and
\* takes the lock of the worker to store them.
LabelSync(n) ==
    /\ n \in DOMAIN dynamicLabels
    /\ dynamicLabels[n].tasks > 0
    /\ dynamicLabels[n].closeCalls = 0
    /\ closeContext = "active"
    /\ dynamicLabels[n].value <= MaxSyncs
    /\ ~dynamicLabels[n].writing
    /\ dynamicLabels' = [dynamicLabels EXCEPT ![n] = [@ EXCEPT !.writing = TRUE]]
    /\ UNCHANGED <<cfgIn, newRet, config, clientAuth, rdsCACerts, ctx, closeContext, heartbeats,
                   descriptors, now, reports, startCalls, closeLog, closeRet, waits, conns, uuids>>

\* The task stores the labels and releases the lock.
LabelStore(n) ==
    /\ n \in DOMAIN dynamicLabels
    /\ dynamicLabels[n].writing
    /\ dynamicLabels' = [dynamicLabels EXCEPT ![n] =
            [@ EXCEPT !.value = @ + 1, !.writing = FALSE]]
    /\ UNCHANGED <<cfgIn, newRet, config, clientAuth, rdsCACerts, ctx, closeContext, heartbeats,
                   descriptors, now, reports, startCalls, closeLog, closeRet, waits, conns, uuids>>

\* ------------------------------------------------------------ specifications
DbTest == CHOOSE d \in Descriptors : d.dbName = "test"
DbMysql == CHOOSE d \in Descriptors : d.protocol # ProtocolPostgres

AllSet == [f \in ScalarFields |-> TRUE]

\* Complete configurations: a postgres database and one of a protocol that
\* has no engine.
ServingConfigs == { [set |-> AllSet, Servers |-> << DbTest, DbMysql >>] }

Services == { "test", "metrics", "other" }

AllowNames == SUBSET { Wildcard, "metrics" }
AllowUsers == SUBSET { Wildcard, "alice" }
Roles == { Role(n, u) : n \in AllowNames, u \in AllowUsers }
Requests == [dbName : { "metrics", "postgres" }, dbUser : { "alice", "postgres" }]

\* Number of queries of one session.
MaxQueries == 1

\* The steps of HandleConnection for the connections cs, with the roles,
\* requests and numbers of queries the environment may produce.
Connection(cs, roles, requests, nqs) ==
    \E c \in cs :
        \/ Accept(c)
        \/ \E ok \in BOOLEAN : Handshake(c, ok)
        \/ \E ok \in BOOLEAN, user \in UserTypes : WrapContext(c, ok, user)
        \/ \E authOk \in BOOLEAN, role \in roles, service \in Services :
                Authorize(c, authOk, role, service)
        \/ \E ok \in BOOLEAN : NewStreamWriter(c, ok)
        \/ Dispatch(c)
        \/ \E request \in requests, nq \in nqs, fail \in BOOLEAN :
                EngineReturn(c, request, nq, fail)
        \/ WriterClose(c)

\* The server with a complete configuration and its connections, of users
\* whose role allows everything.
Next ==
    \/ \E cfg \in ServingConfigs : New(cfg, TRUE, 0, "rds")
    \/ Connection(Conns, { Role({Wildcard}, {Wildcard}) },
                  { [dbName |-> "postgres", dbUser |-> "postgres"] }, { 1 })

Spec == Init /\ [][Next]_vars

\* One connection, every role and every request.
NextAccess ==
    \/ \E cfg \in ServingConfigs : New(cfg, TRUE, 0, "rds")
    \/ Connection({1}, Roles, Requests, 0..MaxQueries)

SpecAccess == Init /\ [][NextAccess]_vars

\* Construction from every configuration, Start and Close.
NextLifecycle ==
    \/ /\ ~newRet.called
       /\ \E cfg \in Configs, awsOk \in BOOLEAN, failAt \in 0..MaxServers, failStep \in InitSteps :
                New(cfg, awsOk, failAt, failStep)
    \/ Start
    \/ CloseCancel
    \/ \E failing \in SUBSET (DOMAIN heartbeats) : CloseHeartbeats(failing)

SpecLifecycle == Init /\ [][NextLifecycle]_vars

\* Complete configurations with every list of descriptors that names no
\* descriptor twice.
ShutdownConfigs ==
    { [set |-> AllSet, Servers |-> l] :
        l \in { m \in ServerLists \ { << >> } :
                    \A i, j \in 1..Len(m) : i # j => m[i] # m[j] } }

\* A server, the context it was made with, and its callers: Start, Close
\* (in which no heartbeat or every heartbeat fails to close) and Wait.
NextShutdown ==
    \/ /\ ~newRet.called
       /\ \E cfg \in ShutdownConfigs : New(cfg, TRUE, 0, "rds")
    \/ CancelCtx
    \/ Start
    \/ CloseCancel
    \/ \E failing \in { {}, DOMAIN heartbeats } : CloseHeartbeats(failing)
    \/ \E w \in 1..MaxWaits : Wait(w)
    \/ \E w \in 1..MaxWaits : WaitReturn(w)

\* A complete configuration with one descriptor, which has dynamic labels.
TickConfigs == { [set |-> AllSet, Servers |-> << DbTest >>] }

\* The rotation getter answering with a rotation.
RotationOk == { r \in GetRotationResults : r.err = "nil" /\ r.rotation = "standby" }

\* A started server with one descriptor, the ticks of its heartbeat, with
\* every clock reading and every answer of the rotation getter, and the
\* steps of its label worker.
NextTicks ==
    \/ \E cfg \in TickConfigs : New(cfg, TRUE, 0, "rds")
    \/ Start
    \/ \E n \in DOMAIN heartbeats, t \in now..MaxTime, rot \in GetRotationResults :
            GetServerInfo(n, t, rot)
    \/ \E n \in DOMAIN heartbeats, ok \in BOOLEAN : Announce(n, ok)
    \/ \E n \in DOMAIN dynamicLabels : LabelSync(n)
    \/ \E n \in DOMAIN dynamicLabels : LabelStore(n)

SpecTicks == Init /\ [][NextTicks]_vars

\* A started server with two descriptors and the announces of their
\* heartbeats, each succeeding or failing.
NextAnnounce ==
    \/ \E cfg \in ServingConfigs : New(cfg, TRUE, 0, "rds")
    \/ Start
    \/ \E n \in DOMAIN heartbeats, rot \in RotationOk : GetServerInfo(n, now, rot)
    \/ \E n \in DOMAIN heartbeats, ok \in BOOLEAN : Announce(n, ok)

SpecAnnounce == Init /\ [][NextAnnounce]_vars

\* A started server with one descriptor, the ticks of its heartbeat and of
\* its label worker, and one connection of a user allowed everything.
NextSession ==
    \/ \E cfg \in TickConfigs : New(cfg, TRUE, 0, "rds")
    \/ Start
    \/ \E n \in DOMAIN heartbeats, t \in now..MaxTime, rot \in RotationOk :
            GetServerInfo(n, t, rot)
    \/ \E n \in DOMAIN heartbeats : Announce(n, TRUE)
    \/ \E n \in DOMAIN dynamicLabels : LabelSync(n)
    \/ \E n \in DOMAIN dynamicLabels : LabelStore(n)
    \/ Connection({1}, { Role({Wildcard}, {Wildcard}) },
                  { [dbName |-> "postgres", dbUser |-> "postgres"] }, { 1 })

SpecSession == Init /\ [][NextSession]_vars

\* A server, one connection of a user allowed everything, and Close. The
\* close of a stream writer whose context is done returns; one whose context
\* is not done may take for ever.
NextServe ==
    \/ \E cfg \in ServingConfigs : New(cfg, TRUE, 0, "rds")
    \/ Connection({1}, { Role({Wildcard}, {Wildcard}) },
                  { [dbName |-> "postgres", dbUser |-> "postgres"] }, { 1 })
    \/ \E c \in Conns : WriterCloseCancelled(c)
    \/ CloseCancel
    \/ CloseHeartbeats({})

SpecServe ==
    Init /\ [][NextServe]_vars /\ \A c \in Conns : WF_vars(WriterCloseCancelled(c))

\* A Wait whose context is done is scheduled and returns.
SpecShutdown ==
    Init /\ [][NextShutdown]_vars /\ \A w \in 1..MaxWaits : WF_vars(WaitReturn(w))

\* A database without dynamic labels that has the resource name of DbTest.
DbStatic == CHOOSE d \in Descriptors : d.name = DbTest.name /\ ~d.dynamic

\* Complete configurations for the label workers: two databases with
\* different names, and two databases with the same name.
LabelConfigs ==
    ServingConfigs \cup { [set |-> AllSet, Servers |-> << DbTest, DbStatic >>] }

\* Heartbeat ticks next to the refreshes of the label workers.
NextLabels ==
    \/ /\ ~newRet.called
       /\ \E cfg \in LabelConfigs : New(cfg, TRUE, 0, "rds")
    \/ Start
    \/ \E n \in DOMAIN heartbeats, rot \in RotationOk : GetServerInfo(n, now, rot)
    \/ \E n \in DOMAIN heartbeats : Announce(n, TRUE)
    \/ \E n \in DOMAIN dynamicLabels : LabelSync(n)
    \/ \E n \in DOMAIN dynamicLabels : LabelStore(n)

SpecLabels == Init /\ [][NextLabels]_vars

\* Every operation of a constructed server with one descriptor next to the
\* others: Start, the ticks of the heartbeat and of the label worker, one
\* connection of a user allowed everything, Close and one Wait.
NextFrame ==
    \/ /\ ~newRet.called
       /\ \E cfg \in TickConfigs : New(cfg, TRUE, 0, "rds")
    \/ Start
    \/ \E n \in DOMAIN heartbeats, rot \in RotationOk : GetServerInfo(n, now, rot)
    \/ \E n \in DOMAIN heartbeats : Announce(n, TRUE)
    \/ \E n \in DOMAIN dynamicLabels : LabelSync(n)
    \/ \E n \in DOMAIN dynamicLabels : LabelStore(n)
    \/ Connection({1}, { Role({Wildcard}, {Wildcard}) },
                  { [dbName |-> "postgres", dbUser |-> "postgres"] }, { 1 })
    \/ CloseCancel
    \/ CloseHeartbeats({})
    \/ Wait(1)
    \/ WaitReturn(1)

SpecFrame == Init /\ [][NextFrame]_vars

\* Complete configurations in which two descriptors have one database name,
\* in either order, and one in which two descriptors have one resource name.
ResolveConfigs ==
    { [set |-> AllSet, Servers |-> l] :
        l \in { << DbMysql, DbStatic >>, << DbStatic, DbMysql >>, << DbTest, DbStatic >> } }

\* A server and the connections of users allowed everything.
NextResolve ==
    \/ /\ ~newRet.called
       /\ \E cfg \in ResolveConfigs : New(cfg, TRUE, 0, "rds")
    \/ Connection(Conns, { Role({Wildcard}, {Wildcard}) },
                  { [dbName |-> "postgres", dbUser |-> "postgres"] }, { 1 })

SpecResolve == Init /\ [][NextResolve]_vars

\* ------------------------------------------------------------------ claims
Matches(allowed, x) == Wildcard \in allowed \/ x \in allowed

Occurs(log, e) == { i \in 1..Len(log) : log[i] = e }

\* The role of the connecting user allows the requested pair.
Allowed(rec) ==
    /\ Matches(rec.authContext.checker.names, rec.request.dbName)
    /\ Matches(rec.authContext.checker.users, rec.request.dbUser)

\* C1: a connection that reached the engine is granted access if and only if
\* the requested database name is the wildcard or a member of the role's
\* allowed names and the requested database user is the wildcard or a member
\* of the role's allowed users; otherwise it fails with "access to database
\* denied" and no query was executed.
C1_AccessIffAllowed ==
    \A c \in Conns :
        conns[c].engine = "returned" =>
            /\ conns[c].granted <=> Allowed(conns[c])
            /\ ~Allowed(conns[c]) =>
                    /\ conns[c].err = AccessDenied
                    /\ conns[c].queries = 0
                    /\ Occurs(conns[c].audit, "query") = {}

\* A denial by the user list alone: the database name is allowed, the user
\* is not.
C1_Witness ==
    \E c \in Conns :
        /\ conns[c].engine = "returned"
        /\ Matches(conns[c].authContext.checker.names, conns[c].request.dbName)
        /\ ~Matches(conns[c].authContext.checker.users, conns[c].request.dbUser)
        /\ conns[c].err = AccessDenied

AuthorizationSteps == { "principal.check", "Authorize", "resolve" }

\* C2: every authorization step of a connection (the principal-type check,
\* the call of Authorizer.Authorize, the descriptor resolution) comes after
\* the successful TLS handshake, made under a TLS configuration that
\* requires and verifies a client certificate, and after the extraction of
\* the identity, in that order.
C2_HandshakeBeforeAuthorization ==
    \A c \in Conns :
        \A i \in 1..Len(conns[c].log) :
            conns[c].log[i] \in AuthorizationSteps =>
                \E j \in 1..(i - 1), k \in 1..(i - 1) :
                    /\ clientAuth = "RequireAndVerifyClientCert"
                    /\ j < k
                    /\ conns[c].log[j] = "handshake.ok"
                    /\ conns[c].log[k] = "identity.ok"

\* A connection whose descriptor resolution has run.
C2_Witness ==
    \E c \in Conns : Occurs(conns[c].log, "resolve") # {}

\* C3: after a failed TLS handshake the raw connection is closed,
\* HandleConnection has returned, the authorizer was not called, there is no
\* Session, no stream writer and no engine, and the handshake was made once.
C3_HandshakeFailureEndsConnection ==
    \A c \in Conns :
        Occurs(conns[c].log, "handshake.failed") # {} =>
            /\ conns[c].raw = "closed"
            /\ conns[c].pc = "returned"
            /\ AuthorizationSteps \cap { conns[c].log[i] : i \in 1..Len(conns[c].log) } = {}
            /\ ~conns[c].session.built
            /\ conns[c].writer = "none"
            /\ conns[c].engine = "none"
            /\ Cardinality(Occurs(conns[c].log, "handshake.failed")
                           \cup Occurs(conns[c].log, "handshake.ok")) = 1

\* A connection whose handshake failed, beside one that was served.
C3_Witness ==
    \E c, d \in Conns :
        /\ Occurs(conns[c].log, "handshake.failed") # {}
        /\ conns[d].session.built

\* C4: when the principal-type check has run on a context whose user is
\* neither a local nor a remote user (or is absent), authorize has returned a
\* BadParameter error without calling the authorizer, and no Session exists.
C4_OtherPrincipalRejected ==
    \A c \in Conns :
        (/\ Occurs(conns[c].log, "principal.check") # {}
         /\ conns[c].user \notin { "LocalUser", "RemoteUser" }) =>
            /\ conns[c].err.class = "BadParameter"
            /\ conns[c].pc = "returned"
            /\ ~conns[c].session.built
            /\ Occurs(conns[c].log, "Authorize") = {}

\* The context carried no user at all.
C4_Witness ==
    \E c \in Conns :
        /\ Occurs(conns[c].log, "principal.check") # {}
        /\ conns[c].user = Nil

Events(log) == { log[i] : i \in 1..Len(log) }

\* No descriptor of the configuration has the database name the identity asks for.
UnknownService(rec) ==
    /\ rec.authContext.set
    /\ \A i \in 1..Len(config.Servers) : config.Servers[i].dbName # rec.authContext.service

\* C5: the target of every Session is a descriptor of the configured list,
\* and when the service name of the authorized identity matches no
\* descriptor, authorize has returned a NotFound error and neither a stream
\* writer nor an engine exists.
C5_UnknownServiceIsNotFound ==
    \A c \in Conns :
        /\ conns[c].session.built => conns[c].session.server \in 1..Len(config.Servers)
        /\ UnknownService(conns[c]) =>
                /\ conns[c].pc = "returned"
                /\ conns[c].err.class = "NotFound"
                /\ ~conns[c].session.built
                /\ conns[c].writer = "none"
                /\ conns[c].engine = "none"

\* The protocol of the descriptor the session of the connection targets.
Protocol(rec) == config.Servers[rec.session.server].protocol

Unsupported(rec) == rec.session.built /\ Protocol(rec) # ProtocolPostgres

\* C6: for a Session whose descriptor has a protocol with no engine, no
\* engine is ever returned or run and no audit event is emitted; once
\* dispatch has been called, handleConnection has returned the error naming
\* the protocol and the connection is closed.
C6_UnsupportedProtocol ==
    \A c \in Conns :
        Unsupported(conns[c]) =>
            /\ conns[c].engine = "none"
            /\ conns[c].audit = <<>>
            /\ Events(conns[c].log) \cap { "dispatch", "engine.run" } = {}
            /\ conns[c].writer \in { "closing", "closed" } =>
                    /\ conns[c].pc = "returned"
                    /\ conns[c].raw = "closed"
                    /\ conns[c].err = BadParameter("unsupported database procotol " \o Protocol(conns[c]))

\* dispatch was called for a descriptor of an unsupported protocol.
C6_Witness ==
    \E c \in Conns :
        /\ Unsupported(conns[c])
        /\ "dispatch.failed" \in Events(conns[c].log)
        /\ conns[c].writer = "closed"

\* C7: the close of the stream writer is issued exactly once for a
\* connection whose stream writer was created, when handleConnection
\* returns, and never otherwise; Close is never called twice on a writer.
C7_WriterClosedOnce ==
    \A c \in Conns :
        /\ Cardinality(Occurs(conns[c].log, "writer.close.go")) =
                IF conns[c].pc = "returned" /\ "writer.new" \in Events(conns[c].log)
                THEN 1 ELSE 0
        /\ conns[c].writerCloses <= Cardinality(Occurs(conns[c].log, "writer.close.go"))
        /\ conns[c].writer = "closed" <=> conns[c].writerCloses = 1

\* One connection that ended in a failed dispatch and one whose engine
\* returned an error, each with its writer closed.
C7_Witness ==
    \E c, d \in Conns :
        /\ "dispatch.failed" \in Events(conns[c].log)
        /\ conns[c].writerCloses = 1
        /\ conns[d].engine = "returned"
        /\ conns[d].err # NoErr
        /\ conns[d].writerCloses = 1

\* C8: whenever HandleConnection is over, the raw connection is closed and
\* the call has returned to its caller: no failure has left it as a panic.
C8_EveryExitClosesAndReturns ==
    \A c \in Conns :
        conns[c].pc \in { "returned", "panicked" } =>
            /\ conns[c].raw = "closed"
            /\ conns[c].pc = "returned"
            /\ conns[c].err.class # "panic"

\* New returned a configuration error, no server, and made no worker and no
\* lifecycle context.
ConfigurationError ==
    /\ newRet.err.class = "BadParameter"
    /\ ~newRet.server
    /\ heartbeats = EmptyTable
    /\ dynamicLabels = EmptyTable
    /\ closeContext = "none"

\* C9 as stated: New fails with a configuration error when any field other
\* than the credential provider is missing.
C9_AllButCredentialsMandatory ==
    (newRet.called /\ Missing(cfgIn) \ { "Credentials" } # {}) => ConfigurationError

\* C9, amended: New fails with a configuration error, returns no server and
\* creates no worker and no lifecycle context when any field other than the
\* credential provider and the clock is missing.
C9_AllButCredentialsAndClockMandatory ==
    (newRet.called /\ Missing(cfgIn) \ { "Credentials", "Clock" } # {}) => ConfigurationError

\* Only the field checked last is missing.
C9_Witness ==
    newRet.called /\ Missing(cfgIn) = { "OnHeartbeat" }

\* C10: every Close call has called Close on every heartbeat of the table,
\* its result holds the error of exactly the heartbeats whose Close failed
\* in that call, and it is nil exactly when none failed.
C10_CloseAggregatesEveryFailure ==
    \A i \in 1..Len(closeRet) :
        LET failed == { n \in DOMAIN heartbeats :
                            /\ Len(heartbeats[n].closeErrs) >= i
                            /\ heartbeats[n].closeErrs[i] # Nil }
        IN  /\ \A n \in DOMAIN heartbeats : Len(heartbeats[n].closeErrs) = Len(closeRet)
            /\ { e.hb : e \in closeRet[i].errs } = failed
            /\ closeRet[i].nil <=> failed = {}

\* A Close call in which two heartbeats failed to close.
C10_Witness ==
    \E i \in 1..Len(closeRet) : Cardinality(closeRet[i].errs) >= 2

\* The number of events e among the first k - 1 of the log of Close.
Before(e, k) == Cardinality({ i \in 1..(k - 1) : closeLog[i] = e })

LabelClose(n) == [ev |-> "dynamicLabel.Close", name |-> n]
HeartbeatClose(n) == [ev |-> "heartbeat.Close", name |-> n]

\* C11: in every Close call, the Close of every label worker comes before
\* the cancellation of the lifecycle context, and the cancellation comes
\* before the Close of any heartbeat: a label worker is closed in a call
\* that has not cancelled yet, the cancellation finds every label worker
\* closed by its call, and a heartbeat is closed in a call that has already
\* cancelled.
C11_ClosePhasesOrdered ==
    \A k \in 1..Len(closeLog) :
        LET e == closeLog[k]
            cancelled == Before(closeFunc, k)
        IN  /\ e.ev = "dynamicLabel.Close" => Before(e, k) = cancelled
            /\ e = closeFunc =>
                    \A n \in DOMAIN dynamicLabels : Before(LabelClose(n), k) = cancelled + 1
            /\ e.ev = "heartbeat.Close" => Before(e, k) + 1 = cancelled

\* Two Close calls have returned on a server with two label workers and two
\* heartbeats.
C11_Witness ==
    /\ Len(closeRet) = 2
    /\ Cardinality(DOMAIN dynamicLabels) = 2
    /\ Cardinality(DOMAIN heartbeats) = 2
    /\ \A n \in DOMAIN dynamicLabels : Before(LabelClose(n), Len(closeLog) + 1) = 2

\* Close has called s.closeFunc().
CloseFuncCalled == \E k \in 1..Len(closeLog) : closeLog[k] = closeFunc

\* C12 as stated: a Wait call has returned only if Close has cancelled the
\* lifecycle context, whatever else happened.
C12_WaitReturnsOnlyAfterClose ==
    \A w \in 1..MaxWaits : waits[w] = "returned" => CloseFuncCalled

\* C12, amended: the lifecycle context is cancelled exactly when Close has
\* cancelled it or the context passed to New was cancelled; a Wait call
\* never returns while the lifecycle context is not cancelled, whatever
\* Start calls are made, and once it is cancelled every pending Wait call
\* eventually returns.
C12_WaitReturnsWhenContextCancelled ==
    /\ [](closeContext = "cancelled" <=>
                (newRet.server /\ (CloseFuncCalled \/ ctx = "cancelled")))
    /\ [](\A w \in 1..MaxWaits : waits[w] = "returned" => closeContext = "cancelled")
    /\ \A w \in 1..MaxWaits :
            (waits[w] = "blocked" /\ closeContext = "cancelled") ~> (waits[w] = "returned")

\* One Wait call has returned after Close cancelled the context of a started
\* server, the context passed to New still being active, and another Wait
\* call is pending.
C12_Witness ==
    /\ ctx = "active"
    /\ CloseFuncCalled
    /\ startCalls > 0
    /\ \E w, v \in 1..MaxWaits : waits[w] = "returned" /\ waits[v] = "blocked"

LabelWorkersClosed == \A n \in DOMAIN dynamicLabels : dynamicLabels[n].closeCalls > 0
HeartbeatsClosed == \A n \in DOMAIN heartbeats : heartbeats[n].closeCalls > 0

\* C13 as stated: when a Wait call has returned, every heartbeat worker and
\* every label worker has been closed.
C13_WaitReturnsAfterWorkersClosed ==
    \A w \in 1..MaxWaits :
        waits[w] = "returned" => (LabelWorkersClosed /\ HeartbeatsClosed)

\* C13, amended: when a Wait call has returned, the lifecycle context is
\* cancelled; if Close cancelled it, every label worker has been closed, and
\* once that Close call has returned every heartbeat worker has been closed.
C13_WaitReturnsAfterCancellation ==
    \A w \in 1..MaxWaits :
        waits[w] = "returned" =>
            /\ closeContext = "cancelled"
            /\ CloseFuncCalled => LabelWorkersClosed
            /\ Len(closeRet) > 0 => HeartbeatsClosed

\* A Wait call has returned while Close, having closed two label workers and
\* cancelled the context, has closed no heartbeat yet.
C13_Witness ==
    /\ \E w \in 1..MaxWaits : waits[w] = "returned"
    /\ CloseRunning
    /\ Len(closeRet) = 0
    /\ Cardinality(DOMAIN dynamicLabels) = 2
    /\ ctx = "active"

\* What a shutdown leaves: the lifecycle context, and for every worker of
\* the tables its descriptor, the tasks started on it and whether it is
\* closed.
ShutdownState ==
    [context |-> closeContext,
     labels |-> [n \in DOMAIN dynamicLabels |->
                    [desc |-> dynamicLabels[n].desc, tasks |-> dynamicLabels[n].tasks,
                     closed |-> dynamicLabels[n].closeCalls > 0]],
     heartbeats |-> [n \in DOMAIN heartbeats |->
                    [desc |-> heartbeats[n].desc, tasks |-> heartbeats[n].tasks,
                     closed |-> heartbeats[n].closeCalls > 0]]]

\* C14: a Close call made after a Close call has returned is never blocked
\* (its first step can be taken, and so can the second once the first was),
\* and no step of it changes what the first call left: the lifecycle
\* context stays cancelled, every worker stays closed, no worker is added to
\* the tables and no task is started.
C14_SecondCloseChangesNothing ==
    /\ []((Len(closeRet) \in 1..(MaxCloseCalls - 1) /\ ~CloseRunning) => ENABLED CloseCancel)
    /\ [](CloseRunning => ENABLED CloseHeartbeats({}))
    /\ [][(Len(closeRet) >= 1 /\ closeLog' # closeLog) =>
                /\ ShutdownState' = ShutdownState
                /\ closeContext' = "cancelled"
                /\ LabelWorkersClosed' /\ HeartbeatsClosed']_vars

\* Two Close calls have returned on a started server with two label workers
\* and two heartbeats, the first with failures, the second with none.
C14_Witness ==
    /\ Len(closeRet) = 2
    /\ ~closeRet[1].nil /\ closeRet[2].nil
    /\ startCalls = 1
    /\ Cardinality(DOMAIN dynamicLabels) = 2
    /\ Cardinality(DOMAIN heartbeats) = 2

\* The tasks running on a worker: those Start has started, while the worker
\* is not closed and its context is not cancelled.
Running(worker) ==
    IF worker.closeCalls > 0 \/ closeContext # "active" THEN 0 ELSE worker.tasks

\* C15: every descriptor of the configuration has at most one running
\* heartbeat task and at most one running label-refresh task.
C15_AtMostOneTaskPerDescriptor ==
    \A i \in 1..Len(config.Servers) :
        /\ \A n \in DOMAIN heartbeats :
                heartbeats[n].desc = i => Running(heartbeats[n]) <= 1
        /\ \A n \in DOMAIN dynamicLabels :
                dynamicLabels[n].desc = i => Running(dynamicLabels[n]) <= 1

\* C16: when the rotation getter returned a not-found error in the last
\* tick of a heartbeat, the info-provider did not abort: it set the expiry
\* of the descriptor from the clock reading of that tick and returned the
\* descriptor, which is being announced or was, so that the heartbeat goes
\* on to its next tick.
C16_NotFoundRotationTolerated ==
    \A n \in DOMAIN heartbeats :
        heartbeats[n].getter = "NotFound" =>
            /\ heartbeats[n].phase \in { "announce", "idle" }
            /\ descriptors[heartbeats[n].desc].expiry = Expiry(heartbeats[n].at)
            /\ Len(heartbeats[n].announces) =
                    heartbeats[n].ticks - (IF heartbeats[n].phase = "announce" THEN 1 ELSE 0)

\* The announces heartbeat n has made, as calls of the callback.
Announces(n) ==
    { [hb |-> n, attempt |-> k, ok |-> heartbeats[n].announces[k]] :
        k \in 1..Len(heartbeats[n].announces) }

\* C17: the calls of the heartbeat-outcome callback of the configuration
\* are exactly the announce attempts of all heartbeats, each with its
\* outcome, success or failure; a heartbeat makes one announce per
\* descriptor its info-provider returned, and none again after a failure.
C17_EveryAnnounceReported ==
    /\ reports = UNION { Announces(n) : n \in DOMAIN heartbeats }
    /\ \A n \in DOMAIN heartbeats :
            Len(heartbeats[n].announces) =
                heartbeats[n].ticks - (IF heartbeats[n].phase = "idle" THEN 0 ELSE 1)

\* Both heartbeats have announced twice; one failed and then succeeded, the
\* other succeeded and then failed.
C17_Witness ==
    \E n, m \in DOMAIN heartbeats :
        /\ heartbeats[n].announces = << FALSE, TRUE >>
        /\ heartbeats[m].announces = << TRUE, FALSE >>
        /\ Cardinality(reports) = 4

\* The Session of connection c and what its target descriptor holds.
SessionView(c) ==
    [session |-> conns[c].session,
     descriptor |-> IF conns[c].session.built
                    THEN descriptors[conns[c].session.server] ELSE NewDescriptor]

\* C20: from the return of authorize to the return of HandleConnection no
\* step changes the Session of a connection or what its target descriptor
\* holds (labels, rotation, expiry).
C20_SessionImmutable ==
    [][\A c \in Conns :
            (conns[c].session.built /\ conns[c].pc \notin { "returned", "panicked" }) =>
                SessionView(c)' = SessionView(c)]_vars

\* The steps that admit a connection, in the order they are taken.
AdmissionSteps ==
    << "handshake.ok", "identity.ok", "principal.check", "Authorize", "resolve", "session",
       "writer.new", "dispatch", "engine.run" >>

\* A step of the admission of the connection failed, or HandleConnection
\* returned without a Session.
Rejected(rec) ==
    \/ Events(rec.log) \cap { "handshake.failed", "identity.failed", "writer.failed",
                              "dispatch.failed", "panic" } # {}
    \/ rec.pc = "returned" /\ ~rec.session.built

\* C18: the engine of a connection has been run only after the handshake
\* succeeded, the identity was extracted, the principal-type check passed,
\* the authorizer accepted, the Session was built and the stream writer was
\* created, in that order and each once; a connection rejected at any step
\* has no engine.
C18_EngineOnlyAfterAdmission ==
    \A c \in Conns :
        /\ "engine.run" \in Events(conns[c].log) =>
                /\ SubSeq(conns[c].log, 1, Len(AdmissionSteps)) = AdmissionSteps
                /\ conns[c].user \in { "LocalUser", "RemoteUser" }
                /\ conns[c].authContext.set
                /\ conns[c].session.built
                /\ conns[c].writer # "none"
        /\ Rejected(conns[c]) =>
                /\ conns[c].engine = "none"
                /\ "engine.run" \notin Events(conns[c].log)

\* The engine of one connection is running; the authorizer refused another.
C18_Witness ==
    \E c, d \in Conns :
        /\ conns[c].engine = "running"
        /\ conns[d].pc = "returned"
        /\ conns[d].err.class = "AccessDenied"
        /\ ~conns[d].session.built

\* C19: handleConnection returns as soon as it has started the close of the
\* stream writer; that close is cut short only when the lifecycle context
\* is cancelled, never by the end of the connection; and once Close has
\* cancelled the lifecycle context no close of a stream writer stays
\* pending for ever.
C19_WriterCloseUnderLifecycleContext ==
    /\ [][\A c \in Conns :
            (conns[c].pc # "returned" /\ conns'[c].pc = "returned" /\ conns'[c].writer # "none")
                => conns'[c].writer = "closing"]_vars
    /\ [](\A c \in Conns : conns[c].writer = "aborted" => closeContext = "cancelled")
    /\ [](\A c \in Conns :
            (conns[c].writer = "closing" /\ closeContext = "active")
                => (conns[c].raw = "closed" /\ ~ENABLED WriterCloseCancelled(c)))
    /\ \A c \in Conns :
            (conns[c].writer = "closing" /\ closeContext = "cancelled")
                ~> (conns[c].writer # "closing")

\* HandleConnection returned after its engine ran, and the close of its
\* stream writer was cut short by the Close of the server.
C19_Witness ==
    \E c \in Conns :
        /\ conns[c].engine = "returned"
        /\ conns[c].raw = "closed"
        /\ conns[c].writer = "aborted"
        /\ CloseFuncCalled

\* The label worker whose map the info-provider of descriptor i reads.
LabelWorkerOf(i) == config.Servers[i].name

\* A tick of the heartbeat of descriptor i happens in this step.
Ticks(i) ==
    \E n \in DOMAIN heartbeats :
        /\ heartbeats[n].desc = i
        /\ heartbeats'[n].ticks = heartbeats[n].ticks + 1

\* C21: after Start, the label map of a descriptor is written only by the
\* label worker of that descriptor (its value changes only in a store of a
\* running worker) and read only by the heartbeat tick of that descriptor,
\* and no tick reads a label map while its worker is storing into it.
C21_LabelMapOwnedByDescriptor ==
    /\ [](\A n \in DOMAIN dynamicLabels : dynamicLabels[n].readers \subseteq {dynamicLabels[n].desc})
    /\ [][\A n \in DOMAIN dynamicLabels :
            (n \in DOMAIN dynamicLabels' /\ dynamicLabels'[n].value # dynamicLabels[n].value)
                => dynamicLabels[n].writing /\ dynamicLabels[n].tasks > 0]_vars
    /\ [][\A i \in 1..Len(descriptors) :
            (Ticks(i) /\ LabelWorkerOf(i) \in DOMAIN dynamicLabels)
                => ~dynamicLabels[LabelWorkerOf(i)].writing]_vars

\* The handles of a worker table that were created for descriptor i.
HandlesOf(table, i) == { n \in DOMAIN table : table[n].desc = i }

\* C22: after New succeeded every configured descriptor has a heartbeat
\* handle of its own, and it has a label worker handle exactly if it declares
\* dynamic labels; after Start each of these handles has a running task.
C22_EveryDescriptorHasItsWorkers ==
    newRet.server =>
        \A i \in 1..Len(config.Servers) :
            /\ HandlesOf(heartbeats, i) # {}
            /\ HandlesOf(dynamicLabels, i) # {} <=> config.Servers[i].dynamic
            /\ startCalls > 0 =>
                    /\ \A n \in HandlesOf(heartbeats, i) : heartbeats[n].tasks > 0
                    /\ \A n \in HandlesOf(dynamicLabels, i) : dynamicLabels[n].tasks > 0

\* The heartbeat handle whose info-provider serves descriptor i.
HeartbeatOf(i) == CHOOSE n \in DOMAIN heartbeats : heartbeats[n].desc = i

\* C23: every invocation of the info-provider of a descriptor replaces the
\* labels by the current map of the label worker (keeps them without a label
\* worker), refreshes the rotation from the getter, sets the expiry to the
\* clock reading plus the announce TTL, and returns the descriptor without
\* an error, so that the heartbeat goes on to announce it.
C23_InfoProviderSteps ==
    [][\A i \in 1..Len(descriptors) :
        Ticks(i) =>
            /\ descriptors'[i].labels =
                    IF LabelWorkerOf(i) \in DOMAIN dynamicLabels
                    THEN dynamicLabels[LabelWorkerOf(i)].value
                    ELSE descriptors[i].labels
            /\ heartbeats'[HeartbeatOf(i)].getter = "nil" => descriptors'[i].rotation \in Rotations
            /\ descriptors'[i].expiry = Expiry(now')
            /\ heartbeats'[HeartbeatOf(i)].phase = "announce"]_vars

\* The entries of a worker table: its keys and the handle under each key.
Entries(table) == [n \in DOMAIN table |-> table[n].desc]

\* C24: once New has returned, no step of Start, Close, Wait, a connection,
\* a heartbeat tick or a label refresh adds, removes or replaces an entry of
\* the heartbeat table, of the label worker table or of the root-certificate
\* cache.
C24_TablesFrozenAfterNew ==
    [][newRet.called =>
            /\ Entries(heartbeats') = Entries(heartbeats)
            /\ Entries(dynamicLabels') = Entries(dynamicLabels)
            /\ rdsCACerts' = rdsCACerts]_vars

\* Every kind of operation has run on a server whose three tables are filled.
C24_Witness ==
    /\ newRet.server /\ startCalls > 0 /\ Len(closeRet) > 0
    /\ waits[1] = "returned"
    /\ DOMAIN rdsCACerts # {}
    /\ \E n \in DOMAIN heartbeats : heartbeats[n].ticks > 0
    /\ \E n \in DOMAIN dynamicLabels : dynamicLabels[n].value > 1
    /\ \E c \in Conns : conns[c].pc = "returned" /\ conns[c].engine # "none"

\* The connections for which authorize has built a Session.
WithSession == { c \in Conns : conns[c].session.built }

\* C25: any two Sessions the server has built, for connections handled one
\* after the other or at the same time, have different ids.
C25_SessionIdsDiffer ==
    \A c1 \in WithSession, c2 \in WithSession : c1 # c2 => conns[c1].session.id # conns[c2].session.id

\* Two Sessions built while the first connection is still being handled, for
\* the same target.
C25_Witness ==
    /\ Cardinality(WithSession) >= 2
    /\ \E c1 \in WithSession, c2 \in WithSession :
            /\ c1 # c2
            /\ conns[c1].pc \notin { "returned", "panicked" }
            /\ conns[c1].session.server = conns[c2].session.server

\* C26: when the rotation getter fails with an error other than NotFound,
\* the info-provider leaves the rotation of the descriptor as it was, still
\* sets its expiry from the clock, and returns it without an error, so the
\* heartbeat goes on to announce it in that tick.
C26_GetterErrorTolerated ==
    /\ [][\A i \in 1..Len(descriptors) :
            (Ticks(i) /\ heartbeats'[HeartbeatOf(i)].getter \notin { "nil", "NotFound" }) =>
                /\ descriptors'[i].rotation = descriptors[i].rotation
                /\ descriptors'[i].expiry = Expiry(now')
                /\ heartbeats'[HeartbeatOf(i)].phase = "announce"]_vars
    /\ [](\A n \in DOMAIN heartbeats :
            (heartbeats[n].phase = "announce" /\ heartbeats[n].getter \notin { "nil", "NotFound" })
                => ENABLED Announce(n, TRUE))

\* A tick whose getter failed, at a later clock reading than the tick that
\* had set the rotation, and the announce of that tick.
C26_Witness ==
    \E n \in DOMAIN heartbeats :
        /\ heartbeats[n].getter = "ConnectionProblem"
        /\ heartbeats[n].ticks = 2 /\ Len(heartbeats[n].announces) = 2
        /\ heartbeats[n].at > 0
        /\ descriptors[heartbeats[n].desc].rotation = "in_progress"
        /\ descriptors[heartbeats[n].desc].expiry = Expiry(heartbeats[n].at)

\* A step of the handling of a connection.
ConnectionStep == conns' # conns

\* C27: no step of the handling of a connection, whatever its outcome,
\* cancels the lifecycle context or starts, stops or closes a heartbeat or a
\* label worker.
C27_ConnectionLeavesLifecycle ==
    [][ConnectionStep =>
            /\ closeContext' = closeContext
            /\ ctx' = ctx
            /\ startCalls' = startCalls
            /\ closeLog' = closeLog
            /\ \A n \in DOMAIN heartbeats :
                    /\ heartbeats'[n].tasks = heartbeats[n].tasks
                    /\ heartbeats'[n].closeCalls = heartbeats[n].closeCalls
            /\ \A n \in DOMAIN dynamicLabels :
                    /\ dynamicLabels'[n].tasks = dynamicLabels[n].tasks
                    /\ dynamicLabels'[n].closeCalls = dynamicLabels[n].closeCalls]_vars

\* A connection was handled to the end of its engine while the workers of
\* the server were running, and they still are.
C27_Witness ==
    /\ closeContext = "active"
    /\ \E c \in Conns : conns[c].pc = "returned" /\ conns[c].engine = "returned"
    /\ \A n \in DOMAIN heartbeats : Running(heartbeats[n]) > 0
    /\ \A n \in DOMAIN dynamicLabels : Running(dynamicLabels[n]) > 0
    /\ \E n \in DOMAIN heartbeats : heartbeats[n].ticks > 0

\* C28: Close does not cancel the handling of a connection. The context
\* handed to an engine comes from a background context, so it is not done
\* when the lifecycle context is; no step of Close changes a connection; an
\* engine running after Close can still return by itself; and a connection
\* can still be accepted, and then dispatched, after Close.
C28_CloseLeavesConnections ==
    /\ [](\A c \in Conns :
            conns[c].pc = "engine" => conns[c].ctx = "Background" /\ ~ContextDone(conns[c].ctx))
    /\ [][closeLog' # closeLog => conns' = conns]_vars
    /\ [](\A c \in Conns :
            (conns[c].pc = "engine" /\ closeContext = "cancelled")
                => ENABLED EngineReturn(c, [dbName |-> "postgres", dbUser |-> "postgres"], 1, FALSE))
    /\ [](\A c \in Conns :
            (newRet.server /\ closeContext = "cancelled" /\ conns[c].pc = "idle"
                /\ \A d \in 1..(c - 1) : conns[d].pc # "idle")
                => ENABLED Accept(c))
    /\ [](\A c \in Conns :
            (conns[c].afterClose /\ conns[c].pc = "dispatch") => ENABLED Dispatch(c))

\* A connection accepted after Close had returned was dispatched to an
\* engine, which ran its session to the end.
C28_Witness ==
    \E c \in Conns :
        /\ conns[c].afterClose
        /\ Len(closeRet) > 0
        /\ conns[c].engine = "returned"
        /\ conns[c].granted
        /\ conns[c].err = NoErr

\* New returned an error from the initialization of a descriptor, i.e. after
\* it had created the lifecycle context.
InitFailed == newRet.called /\ ~newRet.server /\ closeContext # "none"

\* C29: when New fails in the initialization of a descriptor, every worker
\* handle that call had created has been closed and the lifecycle context it
\* had created has been cancelled.
C29_FailedNewLeavesNothing ==
    InitFailed =>
        /\ closeContext = "cancelled"
        /\ \A n \in DOMAIN dynamicLabels : dynamicLabels[n].closeCalls > 0
        /\ \A n \in DOMAIN heartbeats : heartbeats[n].closeCalls > 0

\* The descriptors of the configuration whose database name is the service.
Named(service) == { i \in 1..Len(config.Servers) : config.Servers[i].dbName = service }

\* The connections for which authorize has resolved the service name.
Resolved == { c \in Conns : conns[c].authContext.set /\ conns[c].pc # "authorize" }

\* C30: authorize targets the last descriptor, in the order of the
\* configuration, whose database name is the service name of the identity;
\* the resource name of a descriptor, the key of the worker tables, plays no
\* part.
C30_LastMatchingDatabaseName ==
    \A c \in Resolved :
        LET matching == Named(conns[c].authContext.service)
        IN  matching # {} =>
                /\ conns[c].session.built
                /\ conns[c].session.server \in matching
                /\ \A i \in matching : i <= conns[c].session.server

\* A Session whose target is the second of two descriptors that have the
\* requested database name and different resource names.
C30_Witness ==
    \E c \in Resolved :
        /\ conns[c].session.built
        /\ Cardinality(Named(conns[c].authContext.service)) >= 2
        /\ conns[c].session.server = 2
        /\ config.Servers[1].name # config.Servers[2].name

====
